---- MODULE Spec2Model ----
(***************************************************************************)
(* Orchestration core of the multi-agent health-monitoring assistant:      *)
(* conversational router, planner, top-level supervisor, the three team    *)
(* subgraphs (team supervisor, data collectors, visualization collector),  *)
(* the cross-domain graph nodes, the final correlation analyzer and the    *)
(* retry wrapper around inference calls.                                   *)
(*                                                                         *)
(* Every inference-service answer (router decision, plan, supervisor       *)
(* decision, tool outputs of a ReAct agent) is an input of the program and *)
(* is drawn with \E from a small set.                                      *)
(***************************************************************************)
EXTENDS Integers, Sequences, FiniteSets, TLC

VARIABLES
    node,                  \* the node the engine runs next (Command.goto)
    messages,              \* State.messages: the trace, a sequence of [name, content]
    execution_plan,        \* State.execution_plan
    completed_tasks,       \* State.completed_tasks
    structured_responses,  \* State.structured_responses: sequence of TeamResponse
    graphs,                \* State.graphs
    steps,                 \* node steps taken in the turn
    visited,               \* top-level nodes entered so far, in order
    fault,                 \* exception that ended the turn, "none" otherwise
    last_run,              \* last collector run: its node, the tool outputs it saw, its
                           \* task, the context objects it received and what it left of them
    llm_called,            \* whether the last node step called the inference service
    rg                     \* state of one call of invoke_with_retry, or of
                           \* ExecutionPlan.get_next_task

vars == <<node, messages, execution_plan, completed_tasks, structured_responses,
          graphs, steps, visited, fault, last_run, llm_called, rg>>

pipeline_vars == <<node, messages, execution_plan, completed_tasks,
                   structured_responses, graphs, steps, visited, fault, last_run,
                   llm_called>>

-----------------------------------------------------------------------------
(* Bounds of the model *)

MaxSteps == 7          \* node steps explored per turn
MaxTools == 2          \* tool calls observed in one ReAct agent run
MaxTasks == 2          \* tasks in a plan returned by the planning chain
MaxRetriesArg == 3     \* largest max_retries argument explored
MaxDay == 3            \* days covered by the sensor data of a domain tool

-----------------------------------------------------------------------------
(* Names *)

END == "__end__"
CRASH == "__raised__"

members == <<"sleep_team", "kitchen_team", "mobility_team">>

Teams == {members[i] : i \in 1..Len(members)}

TeamSupervisorOf(team) ==
    CASE team = "sleep_team" -> "sleep_team_supervisor"
      [] team = "kitchen_team" -> "kitchen_team_supervisor"
      [] team = "mobility_team" -> "mobility_team_supervisor"

Instructions == {"analyze sleep", "analyze kitchen"}

\* task texts the top-level supervisor's policy call may name; an answer
\* without a task reads as "" (response.get("task", "").strip())
PolicyTasks == Instructions \cup {"rephrased task", ""}

TaskPool == { [team |-> "sleep_team", instruction |-> "analyze sleep"],
              [team |-> "kitchen_team", instruction |-> "analyze kitchen"] }

RECURSIVE SeqsUpTo(_, _)
SeqsUpTo(S, n) ==
    IF n = 0 THEN {<<>>}
    ELSE LET shorter == SeqsUpTo(S, n - 1)
         IN shorter \cup {Append(s, x) : s \in shorter, x \in S}

Range(s) == {s[i] : i \in 1..Len(s)}

NoDup(s) == \A i, j \in 1..Len(s) : i # j => s[i] # s[j]

\* task lists the planning chain may return: one task per team; the schema
\* (tasks: list[TeamTask]) also validates the empty list
TaskLists == {s \in SeqsUpTo(TaskPool, MaxTasks) : NoDup(s)}

-----------------------------------------------------------------------------
(* Data carried by an AgentResponse: a Python dict.  tag "error" is a dict *)
(* with the key "error"; "envelope" is {"results": [...], "num_analyses"}. *)

Err(m) == [tag |-> "error", msg |-> m, results |-> <<>>, num_analyses |-> 0]
Res(v) == [tag |-> "result", msg |-> v, results |-> <<>>, num_analyses |-> 0]
Envelope(rs, n) == [tag |-> "envelope", msg |-> "", results |-> rs, num_analyses |-> n]

NoDataSentinel == Err("no data for period")

HasErrorKey(d) == d.tag = "error"

\* ToolMessage.content as the node sees it: a JSON string of the dict the
\* tool returned, or a string that is not JSON
JsonOf(d) == [json |-> TRUE, val |-> d]
NotJson == [json |-> FALSE, val |-> Err("")]

ToolContents == {JsonOf(Res("stats")), JsonOf(NoDataSentinel), NotJson}

ToolRuns == SeqsUpTo(ToolContents, MaxTools)

-----------------------------------------------------------------------------
(* Trace entries *)

TaskPrefix == "[TASK]: "
NoneTask == "<None>"

Msg(type, name, content) == [type |-> type, name |-> name, content |-> content]

UserMsg == Msg("human", "", <<"question">>)

IsNotTaskPrefix(t) == t # TaskPrefix

StripTaskPrefix_keeps_tag(content) == content[1]

\* msg.content.replace("[TASK]: ", "")
StripTaskPrefix(content) ==
    LET rest == SelectSeq(content, IsNotTaskPrefix)
    IN IF rest = <<>> THEN "" ELSE rest[1]

InstructionIndexes(msgs) ==
    {i \in 1..Len(msgs) : msgs[i].name = "supervisor_instruction"}

MaxOf(S) == CHOOSE x \in S : \A y \in S : y <= x

ExtractTask_oldest(msgs) ==
    IF InstructionIndexes(msgs) = {} THEN NoneTask
    ELSE StripTaskPrefix(msgs[CHOOSE i \in InstructionIndexes(msgs) :
                                  \A j \in InstructionIndexes(msgs) : i <= j].content)

\* the loop over reversed(state["messages"]) at the head of every collector
ExtractTask(msgs) ==
    IF InstructionIndexes(msgs) = {} THEN NoneTask
    ELSE StripTaskPrefix(msgs[MaxOf(InstructionIndexes(msgs))].content)

\* message = task or "<default request of the node>"
MessageFor(task, default) ==
    IF task = NoneTask \/ task = "" THEN default ELSE task

-----------------------------------------------------------------------------
(* ExecutionPlan *)

NoPlan == [present |-> FALSE, tasks |-> <<>>, cross_domain |-> FALSE]

Plan(tasks, cross_domain) ==
    [present |-> TRUE, tasks |-> tasks, cross_domain |-> cross_domain]

PendingIndexes_by_count(tasks, completed) ==
    {i \in 1..Len(tasks) : i > Cardinality(completed)}

PendingIndexes(tasks, completed) ==
    {i \in 1..Len(tasks) : tasks[i].instruction \notin completed}

NoTask == [team |-> "", instruction |-> ""]

get_next_task_last_pending(tasks, completed) ==
    IF PendingIndexes(tasks, completed) = {} THEN NoTask
    ELSE tasks[CHOOSE i \in PendingIndexes(tasks, completed) :
                   \A j \in PendingIndexes(tasks, completed) : j <= i]

\* for task in self.tasks: if task.instruction not in completed: return task
get_next_task(tasks, completed) ==
    IF PendingIndexes(tasks, completed) = {} THEN NoTask
    ELSE tasks[CHOOSE i \in PendingIndexes(tasks, completed) :
                   \A j \in PendingIndexes(tasks, completed) : i <= j]

DistinctTeams(tasks) == Cardinality({tasks[i].team : i \in 1..Len(tasks)})

AllCompleted(plan, completed) ==
    \A i \in 1..Len(plan.tasks) : plan.tasks[i].instruction \in completed

-----------------------------------------------------------------------------
(* Outcome of one call to the inference service as the calling node sees   *)
(* it: the call returns, or raises a rate-limit failure, or raises another *)
(* failure (a timeout).                                                    *)

CallOutcomes == {"ok", "ResourceExhausted", "DeadlineExceeded"}

Raised(exc) ==
    /\ node' = CRASH
    /\ fault' = exc
    /\ steps' = steps + 1
    /\ llm_called' = TRUE
    /\ UNCHANGED <<messages, execution_plan, completed_tasks,
                   structured_responses, graphs, visited, last_run>>

-----------------------------------------------------------------------------
(* conversational_router.route *)

route_answers_and_plans ==
    /\ node = "conversational_router"
    /\ steps < MaxSteps
    /\ node' = "planner"
    /\ messages' = Append(messages, Msg("ai", "", <<"reply">>))
    /\ visited' = Append(visited, "planner")
    /\ steps' = steps + 1
    /\ llm_called' = TRUE
    /\ UNCHANGED <<execution_plan, completed_tasks, structured_responses,
                   graphs, fault, last_run>>

route ==
    /\ node = "conversational_router"
    /\ steps < MaxSteps
    /\ \E outcome \in CallOutcomes, decision \in {"planner", "FINISH"} :
         IF outcome # "ok" THEN Raised(outcome)
         ELSE /\ IF decision = "FINISH"
                 THEN /\ node' = END
                      /\ messages' = Append(messages, Msg("ai", "", <<"reply">>))
                      /\ visited' = Append(visited, END)
                 ELSE /\ node' = "planner"
                      /\ messages' = messages
                      /\ visited' = Append(visited, "planner")
              /\ steps' = steps + 1
              /\ llm_called' = TRUE
              /\ UNCHANGED <<execution_plan, completed_tasks, structured_responses,
                             graphs, fault, last_run>>

-----------------------------------------------------------------------------
(* planner_node: the plan is stored as the planning chain returned it; an   *)
(* answer the parser cannot validate raises out of the chain               *)

PlanningOutcomes == CallOutcomes \cup {"OutputParserException"}

planner_node ==
    /\ node = "planner"
    /\ steps < MaxSteps
    /\ \E outcome \in PlanningOutcomes, tasks \in TaskLists, raw_cross_domain \in BOOLEAN :
         IF outcome # "ok" THEN Raised(outcome)
         ELSE /\ execution_plan' = Plan(tasks, raw_cross_domain)
              /\ completed_tasks' = {}
              /\ messages' = Append(messages, Msg("human", "", <<"EXECUTION PLAN">>))
              /\ node' = "supervisor"
              /\ visited' = Append(visited, "supervisor")
              /\ steps' = steps + 1
              /\ llm_called' = TRUE
              /\ UNCHANGED <<structured_responses, graphs, fault, last_run>>

-----------------------------------------------------------------------------
(* Top-level supervisor (make_supervisor_node.supervisor_node) *)

\* response.get("task", "").strip() on an element of structured_responses
TaskKeyOf(response) ==
    IF "task" \in DOMAIN response THEN response.task ELSE ""

\* completed_tasks as the supervisor rebuilds it from structured_responses
SupervisorCompleted(responses) ==
    {TaskKeyOf(responses[i]) : i \in 1..Len(responses)} \ {""}

supervisor_node ==
    /\ node = "supervisor"
    /\ steps < MaxSteps
    /\ \E outcome \in CallOutcomes, next \in {"FINISH"} \cup Teams,
          task_description \in PolicyTasks, synthesis \in CallOutcomes :
         LET completed == SupervisorCompleted(structured_responses)
             goto == IF task_description \in completed THEN "FINISH" ELSE next
         IN IF outcome # "ok" THEN Raised(outcome)
            ELSE IF goto = "FINISH"
            THEN IF synthesis # "ok" THEN Raised(synthesis)
                 ELSE /\ node' = END
                      /\ messages' = Append(messages,
                                        Msg("ai", "supervisor", <<"final answer">>))
                      /\ visited' = Append(visited, END)
                      /\ steps' = steps + 1
                      /\ llm_called' = TRUE
                      /\ UNCHANGED <<execution_plan, completed_tasks,
                                     structured_responses, graphs, fault, last_run>>
            ELSE /\ node' = TeamSupervisorOf(goto)
                 /\ messages' = Append(messages,
                                   Msg("human", "supervisor_instruction",
                                       <<TaskPrefix, task_description>>))
                 /\ visited' = Append(visited, goto)
                 /\ steps' = steps + 1
                 /\ llm_called' = TRUE
                 /\ UNCHANGED <<execution_plan, completed_tasks,
                                structured_responses, graphs, fault, last_run>>

-----------------------------------------------------------------------------
(* Collector nodes: analyze_sleep_node, analyze_heart_node,                *)
(* analyze_kitchen_node, analyze_mobility_node                             *)

ParseTool_keeps_raw_text(c) == IF c.json THEN c.val ELSE Res("raw text")

\* parse of one ToolMessage.content
ParseTool(c) == IF c.json THEN c.val ELSE Err("JSON parsing failed")

ParseAll(run) == [i \in 1..Len(run) |-> ParseTool(run[i])]

Aggregate_wraps_single(all_results, who) ==
    IF Len(all_results) = 0 THEN Err(who)
    ELSE Envelope(all_results, Len(all_results))

\* all_results -> agent_data (sleep, kitchen, mobility collectors)
Aggregate(all_results, who) ==
    IF Len(all_results) = 0 THEN Err(who)
    ELSE IF Len(all_results) = 1 THEN all_results[1]
    ELSE Envelope(all_results, Len(all_results))

\* analyze_heart_node: the first ToolMessage only
HeartData(run) ==
    IF Len(run) = 0 THEN Err("Nessuna risposta dall'agente heart rate")
    ELSE ParseTool(run[1])

AgentResponse(task, agent_name, data) ==
    [task |-> task, agent_name |-> agent_name, data |-> data]

TeamResponse(team_name, responses) ==
    [team_name |-> team_name, structured_responses |-> responses]

TeamIndexes(responses, team) ==
    {i \in 1..Len(responses) : responses[i].team_name = team}

FirstTeamIndex(responses, team) ==
    CHOOSE i \in TeamIndexes(responses, team) :
        \A j \in TeamIndexes(responses, team) : i <= j

AddResponse_replaces(responses, team, agent_response) ==
    IF TeamIndexes(responses, team) # {}
    THEN [responses EXCEPT ![FirstTeamIndex(responses, team)].structured_responses =
              <<agent_response>>]
    ELSE Append(responses, TeamResponse(team, <<agent_response>>))

\* "Aggiorna state": append to the team's TeamResponse, or create it
AddResponse(responses, team, agent_response) ==
    IF TeamIndexes(responses, team) # {}
    THEN [responses EXCEPT ![FirstTeamIndex(responses, team)].structured_responses =
              Append(@, agent_response)]
    ELSE Append(responses, TeamResponse(team, <<agent_response>>))

\* what the except clause around a governed call leaves behind: the
\* rate-limit failure is swallowed and the next statement reads the unbound
\* local; any other failure propagates
AfterGoverned(outcome) ==
    IF outcome = "ResourceExhausted" THEN "UnboundLocalError" ELSE outcome

\* completed_tasks = state.get("completed_tasks", set()); completed_tasks.add(task)
MarkCompleted(completed, task) == completed \cup {task}

\* the list object state["structured_responses"] as the collector leaves
\* it: an existing TeamResponse is appended to in place, a new one goes
\* into a new list (current_responses + [new_team_response])
ResponsesHeld(responses, team, agent_response) ==
    IF TeamIndexes(responses, team) # {}
    THEN AddResponse(responses, team, agent_response)
    ELSE responses

\* the objects the collector read from the state: as it received them, and
\* as they are when it returns its Command (completed_tasks.add(task) adds
\* to the set object it was given)
ContextObjects(responses, completed) ==
    [structured_responses |-> responses, completed_tasks |-> completed]

Collect(self, team, team_supervisor, agent_name, default, data, reply_name, run) ==
    LET task == ExtractTask(messages)
        message == MessageFor(task, default)
    IN /\ structured_responses' =
              AddResponse(structured_responses, team,
                          AgentResponse(message, agent_name, data))
       /\ completed_tasks' = MarkCompleted(completed_tasks, task)
       /\ messages' = Append(messages, Msg("human", reply_name, <<"completed", task>>))
       /\ node' = team_supervisor
       /\ last_run' = [node |-> self, tools |-> run, task |-> task, step |-> steps + 1,
                       received |-> ContextObjects(structured_responses, completed_tasks),
                       held |-> ContextObjects(
                                    ResponsesHeld(structured_responses, team,
                                                  AgentResponse(message, agent_name, data)),
                                    MarkCompleted(completed_tasks, task))]
       /\ steps' = steps + 1
       /\ llm_called' = TRUE
       /\ UNCHANGED <<execution_plan, graphs, visited, fault>>

analyze_sleep_node ==
    /\ node = "analyze_sleep_node"
    /\ steps < MaxSteps
    /\ \E outcome \in CallOutcomes, run \in ToolRuns :
         IF outcome # "ok" THEN Raised(outcome)
         ELSE Collect("analyze_sleep_node", "sleep_team", "sleep_team_supervisor",
                      "sleep_agent", "Analizza il sonno del soggetto richiesto.",
                      Aggregate(ParseAll(run), "Nessuna risposta dall'agente sleep"),
                      "sleep_node_response", run)

analyze_heart_node ==
    /\ node = "analyze_heart_node"
    /\ steps < MaxSteps
    /\ \E outcome \in CallOutcomes, run \in ToolRuns :
         IF outcome # "ok" THEN Raised(outcome)
         ELSE Collect("analyze_heart_node", "sleep_team", "sleep_team_supervisor",
                      "heart_freq_agent",
                      "Analizza la frequenza cardiaca del soggetto richiesto.",
                      HeartData(run), "heart_node_response", run)

analyze_kitchen_node ==
    /\ node = "analyze_kitchen_node"
    /\ steps < MaxSteps
    /\ \E outcome \in CallOutcomes, run \in ToolRuns :
         IF outcome # "ok" THEN Raised(AfterGoverned(outcome))
         ELSE Collect("analyze_kitchen_node", "kitchen_team", "kitchen_team_supervisor",
                      "kitchen_agent", "Analizza l'attivita di cucina del soggetto richiesto.",
                      Aggregate(ParseAll(run), "Nessuna risposta dall'agente kitchen"),
                      "kitchen_node_response", run)

analyze_mobility_node ==
    /\ node = "analyze_mobility_node"
    /\ steps < MaxSteps
    /\ \E outcome \in CallOutcomes, run \in ToolRuns :
         IF outcome # "ok" THEN Raised(AfterGoverned(outcome))
         ELSE Collect("analyze_mobility_node", "mobility_team", "mobility_team_supervisor",
                      "mobility_agent", "Analizza la mobilita del soggetto richiesto.",
                      Aggregate(ParseAll(run), "Nessuna risposta dall'agente mobility"),
                      "mobility_node_response", run)

-----------------------------------------------------------------------------
(* Team supervisors *)

VizTracking == <<"VISUALIZATION: Generating graphs">>

NamedIndexes(msgs, name) == {i \in 1..Len(msgs) : msgs[i].name = name}

MinOf(S) == CHOOSE x \in S : \A y \in S : x <= y

\* the marker loop stops at the first entry named after the visualization
ScannedUpTo(msgs, viz_name) ==
    IF NamedIndexes(msgs, viz_name) = {} THEN Len(msgs)
    ELSE MinOf(NamedIndexes(msgs, viz_name))

visualization_called(msgs, sup_name, viz_name) ==
    \E i \in 1..ScannedUpTo(msgs, viz_name) :
        msgs[i].name = sup_name /\ msgs[i].content = VizTracking

visualization_completed(msgs, viz_name) == NamedIndexes(msgs, viz_name) # {}

\* "Safety checks" of the sleep and mobility supervisors
SafetyChecks(goto, viz_node, called, completed) ==
    LET first == IF goto = viz_node /\ (called \/ completed) THEN "FINISH" ELSE goto
    IN IF completed /\ first # "FINISH" THEN "FINISH" ELSE first

TrackingContent(goto, viz_node) ==
    IF goto = viz_node THEN VizTracking
    ELSE IF goto = "FINISH" THEN <<"FINISH">>
    ELSE <<"ROUTING", goto>>

TeamRoute_ends_pipeline(goto, viz_node, sup_name) ==
    /\ messages' = Append(messages, Msg("ai", sup_name, TrackingContent(goto, viz_node)))
    /\ IF goto = "FINISH"
       THEN /\ node' = END
            /\ visited' = Append(visited, END)
       ELSE /\ node' = goto
            /\ visited' = visited
    /\ steps' = steps + 1
    /\ llm_called' = TRUE
    /\ UNCHANGED <<execution_plan, completed_tasks, structured_responses,
                   graphs, fault, last_run>>

TeamRoute_fans_out(goto, viz_node, sup_name) ==
    /\ messages' = Append(messages, Msg("ai", sup_name, TrackingContent(goto, viz_node)))
    /\ IF goto = "FINISH" \/ goto # viz_node
       THEN /\ node' = "supervisor"
            /\ visited' = Append(visited, "supervisor")
       ELSE /\ node' = goto
            /\ visited' = visited
    /\ steps' = steps + 1
    /\ llm_called' = TRUE
    /\ UNCHANGED <<execution_plan, completed_tasks, structured_responses,
                   graphs, fault, last_run>>

\* the Command a team supervisor returns; FINISH ends the subgraph and the
\* edge team -> supervisor of the parent graph is taken
TeamRoute(goto, viz_node, sup_name) ==
    /\ messages' = Append(messages, Msg("ai", sup_name, TrackingContent(goto, viz_node)))
    /\ IF goto = "FINISH"
       THEN /\ node' = "supervisor"
            /\ visited' = Append(visited, "supervisor")
       ELSE /\ node' = goto
            /\ visited' = visited
    /\ steps' = steps + 1
    /\ llm_called' = TRUE
    /\ UNCHANGED <<execution_plan, completed_tasks, structured_responses,
                   graphs, fault, last_run>>

sleep_supervisor_node ==
    /\ node = "sleep_team_supervisor"
    /\ steps < MaxSteps
    /\ \E outcome \in CallOutcomes,
          next \in {"FINISH", "analyze_sleep_node", "analyze_heart_node",
                    "sleep_visualization"} :
         IF outcome # "ok" THEN Raised(outcome)
         ELSE TeamRoute(SafetyChecks(next, "sleep_visualization",
                            visualization_called(messages, "sleep_supervisor",
                                                 "sleep_visualization"),
                            visualization_completed(messages, "sleep_visualization")),
                        "sleep_visualization", "sleep_supervisor")

\* the kitchen supervisor applies no check to the decision
kitchen_supervisor_node ==
    /\ node = "kitchen_team_supervisor"
    /\ steps < MaxSteps
    /\ \E outcome \in CallOutcomes,
          next \in {"FINISH", "analyze_kitchen_node", "kitchen_visualization_node"} :
         IF outcome # "ok" THEN Raised(AfterGoverned(outcome))
         ELSE TeamRoute(next, "kitchen_visualization_node", "kitchen_supervisor")

mobility_supervisor_node ==
    /\ node = "mobility_team_supervisor"
    /\ steps < MaxSteps
    /\ \E outcome \in CallOutcomes,
          next \in {"FINISH", "analyze_mobility_node", "mobility_visualization_node"} :
         IF outcome # "ok" THEN Raised(outcome)
         ELSE TeamRoute(SafetyChecks(next, "mobility_visualization_node",
                            visualization_called(messages, "mobility_supervisor",
                                                 "mobility_visualization"),
                            visualization_completed(messages, "mobility_visualization")),
                        "mobility_visualization_node", "mobility_supervisor")

-----------------------------------------------------------------------------
(* Visualization collectors of the teams *)

Graph(id) == [id |-> id]

\* graphs harvested from the ToolMessages of one visualization agent run
ChartRuns(id) == {<<>>, <<Graph(id)>>}

\* responses of the first TeamResponse of the team, <<>> when there is none
ResponsesOf(responses, team) ==
    IF TeamIndexes(responses, team) = {} THEN <<>>
    ELSE responses[FirstTeamIndex(responses, team)].structured_responses

\* some response of that agent carries data without the key "error"
HasValidData(team_responses, agent_name) ==
    \E i \in 1..Len(team_responses) :
        /\ ~HasErrorKey(team_responses[i].data)
        /\ team_responses[i].agent_name = agent_name

\* sleep_visualizzation_node.sleep_visualization_node: ends the subgraph,
\* replaces graphs, writes no trace entry
sleep_visualization_node ==
    /\ node = "sleep_visualization"
    /\ steps < MaxSteps
    /\ \E outcome \in CallOutcomes, charts \in ChartRuns("sleep_chart") :
         LET mine == ResponsesOf(structured_responses, "sleep_team")
             valid == HasValidData(mine, "sleep_agent")
                         \/ HasValidData(mine, "heart_freq_agent")
         IN /\ graphs' = IF valid /\ outcome = "ok" THEN charts ELSE <<>>
            /\ node' = "supervisor"
            /\ visited' = Append(visited, "supervisor")
            /\ steps' = steps + 1
            /\ llm_called' = valid
            /\ UNCHANGED <<messages, execution_plan, completed_tasks,
                           structured_responses, fault, last_run>>

TeamVisualization_resets_completed(team, agent_name, team_supervisor, viz_name, chart_id) ==
    /\ messages' = Append(messages, Msg("human", viz_name, <<"Visualization completed">>))
    /\ graphs' = <<Graph(chart_id)>>
    /\ completed_tasks' = {}
    /\ node' = team_supervisor
    /\ steps' = steps + 1
    /\ llm_called' = TRUE
    /\ UNCHANGED <<execution_plan, structured_responses, visited, fault, last_run>>

\* kitchen_visualization_node and mobility_visualization_node
TeamVisualization(team, agent_name, team_supervisor, viz_name, chart_id) ==
    \E outcome \in CallOutcomes, charts \in ChartRuns(chart_id) :
         LET valid == HasValidData(ResponsesOf(structured_responses, team), agent_name)
         IN /\ IF ~valid
               THEN /\ graphs' = graphs
                    /\ messages' = Append(messages,
                           Msg("human", viz_name, <<"Visualization skipped: no data">>))
               ELSE IF outcome = "ok"
               THEN /\ graphs' = charts
                    /\ messages' = Append(messages,
                           Msg("human", viz_name, <<"Visualization completed">>))
               ELSE /\ graphs' = graphs
                    /\ messages' = Append(messages,
                           Msg("human", viz_name, <<"Visualization failed">>))
            /\ node' = team_supervisor
            /\ steps' = steps + 1
            /\ llm_called' = valid
            /\ UNCHANGED <<execution_plan, completed_tasks, structured_responses,
                           visited, fault, last_run>>

kitchen_visualization_node ==
    /\ node = "kitchen_visualization_node"
    /\ steps < MaxSteps
    /\ TeamVisualization("kitchen_team", "kitchen_agent", "kitchen_team_supervisor",
                         "kitchen_visualization", "kitchen_chart")

mobility_visualization_node ==
    /\ node = "mobility_visualization_node"
    /\ steps < MaxSteps
    /\ TeamVisualization("mobility_team", "mobility_agent", "mobility_team_supervisor",
                         "mobility_visualization", "mobility_chart")

-----------------------------------------------------------------------------
(* The engine's step cap and what the caller of the graph returns *)

\* config["recursion_limit"] = max_iterations: the engine raises
\* GraphRecursionError when the cap is reached before the graph has ended
recursion_limit ==
    /\ node \notin {END, CRASH}
    /\ steps = MaxSteps
    /\ node' = CRASH
    /\ fault' = "GraphRecursionError"
    /\ llm_called' = FALSE
    /\ UNCHANGED <<messages, execution_plan, completed_tasks, structured_responses,
                   graphs, steps, visited, last_run>>

Apology == <<"I'm sorry, I couldn't generate a response.">>

AiIndexes(msgs) == {i \in 1..Len(msgs) : msgs[i].type = "ai"}

\* the content of the last AI message, the apology when there is none
assistant_message(msgs) ==
    IF AiIndexes(msgs) = {} THEN Apology
    ELSE msgs[MaxOf(AiIndexes(msgs))].content

\* all_agent_responses: the responses of every TeamResponse, in order
RECURSIVE Flatten(_)
Flatten(responses) ==
    IF responses = <<>> THEN <<>>
    ELSE Head(responses).structured_responses \o Flatten(Tail(responses))

\* some node update of the turn carried the keys structured_responses and
\* graphs: a team subgraph returns its whole state, the cross-domain nodes
\* return graphs
UpdatesCarryState ==
    \E i \in 1..Len(visited) : visited[i] \in Teams \cup {"correlation_analyzer"}

\* (assistant_message, structured_responses, graphs) of run_chat
run_chat ==
    [message |-> assistant_message(messages),
     structured_responses |->
         IF UpdatesCarryState THEN Flatten(structured_responses) ELSE <<>>,
     graphs |-> IF UpdatesCarryState THEN graphs ELSE <<>>]

NoAnswer == <<>>

\* QueryResponse, or the HTTPException raised for any exception of run_chat
chat_endpoint_returns_partial ==
    [status |-> 200, message |-> run_chat.message, detail |-> "",
     structured_responses |-> run_chat.structured_responses,
     graphs |-> run_chat.graphs]

chat_endpoint ==
    IF fault # "none"
    THEN [status |-> 500, message |-> NoAnswer, detail |-> fault,
          structured_responses |-> <<>>, graphs |-> <<>>]
    ELSE [status |-> 200, message |-> run_chat.message, detail |-> "",
          structured_responses |-> run_chat.structured_responses,
          graphs |-> run_chat.graphs]

-----------------------------------------------------------------------------
(* The graph as build_graph wires it *)

NoRun == [node |-> "", tools |-> <<>>, task |-> "", step |-> 0,
          received |-> ContextObjects(<<>>, {}), held |-> ContextObjects(<<>>, {})]

RgIdle == [pc |-> "idle", fn |-> "", max_retries |-> 0, retry_count |-> 0,
           attempts |-> 0, sleeps |-> <<>>, calls |-> <<>>, result |-> "", raised |-> ""]

Init ==
    /\ node = "conversational_router"
    /\ messages = <<UserMsg>>
    /\ execution_plan = NoPlan
    /\ completed_tasks = {}
    /\ structured_responses = <<>>
    /\ graphs = <<>>
    /\ steps = 0
    /\ visited = <<"conversational_router">>
    /\ fault = "none"
    /\ last_run = NoRun
    /\ llm_called = FALSE
    /\ rg = RgIdle

Next ==
    \/ (route /\ UNCHANGED rg)
    \/ (planner_node /\ UNCHANGED rg)
    \/ (supervisor_node /\ UNCHANGED rg)
    \/ (sleep_supervisor_node /\ UNCHANGED rg)
    \/ (kitchen_supervisor_node /\ UNCHANGED rg)
    \/ (mobility_supervisor_node /\ UNCHANGED rg)
    \/ (analyze_sleep_node /\ UNCHANGED rg)
    \/ (analyze_heart_node /\ UNCHANGED rg)
    \/ (analyze_kitchen_node /\ UNCHANGED rg)
    \/ (analyze_mobility_node /\ UNCHANGED rg)
    \/ (sleep_visualization_node /\ UNCHANGED rg)
    \/ (kitchen_visualization_node /\ UNCHANGED rg)
    \/ (mobility_visualization_node /\ UNCHANGED rg)
    \/ (recursion_limit /\ UNCHANGED rg)

Spec == Init /\ [][Next]_vars

\* the engine runs the node Command.goto names as long as one is pending
SpecLive == Spec /\ WF_vars(Next)

TypeOK ==
    /\ steps \in 0..MaxSteps
    /\ completed_tasks \subseteq (PolicyTasks \cup {NoneTask, ""})

-----------------------------------------------------------------------------
(* invoke_with_retry and invoke_with_structured_output                     *)
(*                                                                         *)
(* rg.calls is the history of what the wrapped callable did at each        *)
(* attempt; rg.sleeps is the sequence of time.sleep durations.             *)

DefaultRetryDelay == 60
DefaultMaxRetries == 3

\* a ResourceExhausted failure: retry_delay is the seconds of the attribute
\* exc.retry_delay (-1: no attribute, or a falsy one); text is str(exc):
\* whether it holds a "retry_delay {" block, and the digits after
\* "seconds: " in it (-1: none)
Failure(retry_delay, block, seconds) ==
    [retry_delay |-> retry_delay, block |-> block, seconds |-> seconds]

NoFailure == Failure(-1, FALSE, -1)

Failures == {Failure(a, b, d) : a \in {-1, 5}, b \in BOOLEAN, d \in {-1, 7}}

Outcome(kind, val, failure) == [kind |-> kind, val |-> val, failure |-> failure]

CallableOutcomes ==
    {Outcome("ok", v, NoFailure) : v \in {"result A", "result B"}}
    \cup {Outcome("rate_limit", "ResourceExhausted", f) : f \in Failures}
    \cup {Outcome("other", e, NoFailure) : e \in {"DeadlineExceeded", "ServiceUnavailable"}}

\* re.search(r'retry_delay \{\s*seconds: (\d+)', str(exc))
RegexSeconds(f) == IF f.block /\ f.seconds # -1 THEN f.seconds ELSE -1

RetryDelay_ignores_text(f) ==
    IF f.retry_delay # -1 THEN f.retry_delay ELSE DefaultRetryDelay

\* the delay the except clause computes
RetryDelay(f) ==
    IF f.retry_delay # -1 THEN f.retry_delay
    ELSE IF RegexSeconds(f) # -1 THEN RegexSeconds(f)
    ELSE DefaultRetryDelay

IsRateLimit_any_exception(outcome) == outcome.kind \in {"rate_limit", "other"}

\* except exceptions.ResourceExhausted
IsRateLimit(outcome) == outcome.kind = "rate_limit"

CanRetry_strict(retry_count, max_retries) == retry_count < max_retries

\* if retry_count <= max_retries: sleep and go round the loop again
CanRetry(retry_count, max_retries) == retry_count <= max_retries

\* one turn of the while loop: the attempt and, on a failure, its handler
RetryLoop ==
    /\ rg.pc = "loop"
    /\ IF ~(rg.retry_count <= rg.max_retries)
       THEN rg' = [rg EXCEPT !.pc = "returned", !.result = "None"]
       ELSE \E o \in CallableOutcomes :
              IF o.kind = "ok"
              THEN rg' = [rg EXCEPT !.pc = "returned", !.result = o.val,
                                    !.attempts = @ + 1, !.calls = Append(@, o)]
              ELSE IF IsRateLimit(o)
              THEN IF CanRetry(rg.retry_count + 1, rg.max_retries)
                   THEN rg' = [rg EXCEPT !.retry_count = @ + 1,
                                         !.attempts = @ + 1, !.calls = Append(@, o),
                                         !.sleeps = Append(@, RetryDelay(o.failure))]
                   ELSE rg' = [rg EXCEPT !.pc = "raised", !.raised = o.val,
                                         !.retry_count = @ + 1,
                                         !.attempts = @ + 1, !.calls = Append(@, o)]
              ELSE rg' = [rg EXCEPT !.pc = "raised", !.raised = o.val,
                                    !.attempts = @ + 1, !.calls = Append(@, o)]

invoke_with_retry ==
    /\ rg.fn = "invoke_with_retry"
    /\ RetryLoop
    /\ UNCHANGED pipeline_vars

invoke_with_structured_output ==
    /\ rg.fn = "invoke_with_structured_output"
    /\ RetryLoop
    /\ UNCHANGED pipeline_vars

RgCall(fn, max_retries) ==
    [pc |-> "loop", fn |-> fn, max_retries |-> max_retries, retry_count |-> 0,
     attempts |-> 0, sleeps |-> <<>>, calls |-> <<>>, result |-> "", raised |-> ""]

PipelineIdle ==
    /\ node = END
    /\ messages = <<UserMsg>>
    /\ execution_plan = NoPlan
    /\ completed_tasks = {}
    /\ structured_responses = <<>>
    /\ graphs = <<>>
    /\ steps = 0
    /\ visited = <<>>
    /\ fault = "none"
    /\ last_run = NoRun
    /\ llm_called = FALSE

InitRetry ==
    /\ PipelineIdle
    /\ \E fn \in {"invoke_with_retry", "invoke_with_structured_output"},
          max_retries \in 0..MaxRetriesArg :
         rg = RgCall(fn, max_retries)

NextRetry == invoke_with_retry \/ invoke_with_structured_output

SpecRetry == InitRetry /\ [][NextRetry]_vars

-----------------------------------------------------------------------------
(* Cross-domain graph nodes and the final correlation analyzer.            *)
(* build_graph adds generator_node and correlation_analyzer to the graph;  *)
(* no Command of the wired nodes names them, so they are exercised on      *)
(* every context the team collectors can leave behind.                     *)

\* sleep_data / kitchen_data / mobility_data of correlation_graph_node: some
\* response of the team's agent without the key "error"
DomainHasData(responses, team, agent_name) ==
    \E i \in 1..Len(responses) :
        /\ responses[i].team_name = team
        /\ HasValidData(responses[i].structured_responses, agent_name)

AnyDomainData(responses) ==
    \/ DomainHasData(responses, "sleep_team", "sleep_agent")
    \/ DomainHasData(responses, "kitchen_team", "kitchen_agent")
    \/ DomainHasData(responses, "mobility_team", "mobility_agent")

Note(content) == Msg("human", "correlation_graph", <<content>>)

\* how the body of the try block and its fallback end
PanelResults == {"Generated single panel graph", "No viz",
                 "Generated fallback graph", "Failed"}

correlation_graph_node ==
    /\ node = "correlation_graph_node"
    /\ steps < MaxSteps
    /\ IF ~AnyDomainData(structured_responses)
       THEN /\ messages' = Append(messages, Note("No data"))
            /\ graphs' = graphs
            /\ llm_called' = FALSE
       ELSE \E result \in PanelResults :
              /\ messages' = Append(messages, Note(result))
              /\ graphs' = IF result \in {"Generated single panel graph",
                                           "Generated fallback graph"}
                           THEN Append(graphs, Graph("single_panel"))
                           ELSE graphs
              /\ llm_called' = TRUE
    /\ node' = "correlation_analyzer"
    /\ visited' = Append(visited, "correlation_analyzer")
    /\ steps' = steps + 1
    /\ UNCHANGED <<execution_plan, completed_tasks, structured_responses,
                   fault, last_run>>

add_messages_replaces_trace(left, output) ==
    SubSeq(output, Len(left) + 1, Len(output))

\* the reducer of State.messages applied to the message list an agent run
\* returns: that list starts with the entries the agent was given, which
\* carry the ids of the trace's entries and are merged onto them; the
\* entries after them are new and are appended
add_messages(left, output) ==
    left \o SubSeq(output, Len(left) + 1, Len(output))

\* create_graph_generator_node._node_
graph_generator_node ==
    /\ node = "generator_node"
    /\ steps < MaxSteps
    /\ IF execution_plan.present /\ execution_plan.cross_domain
       THEN \E outcome \in CallOutcomes :
              IF outcome # "ok" THEN Raised(outcome)
              ELSE /\ graphs' = Append(graphs, Graph("correlation_chart"))
                   /\ messages' = add_messages(messages, messages \o
                          <<Msg("human", "", <<"data summary">>),
                            Msg("ai", "graph_generator", <<"FINAL ANSWER">>)>>)
                   /\ llm_called' = TRUE
                   /\ node' = "correlation_analyzer"
                   /\ visited' = Append(visited, "correlation_analyzer")
                   /\ steps' = steps + 1
                   /\ UNCHANGED <<execution_plan, completed_tasks,
                                  structured_responses, fault, last_run>>
       ELSE /\ node' = "correlation_analyzer"
            /\ visited' = Append(visited, "correlation_analyzer")
            /\ llm_called' = FALSE
            /\ steps' = steps + 1
            /\ UNCHANGED <<messages, graphs, execution_plan, completed_tasks,
                           structured_responses, fault, last_run>>

correlation_analyzer_node ==
    /\ node = "correlation_analyzer"
    /\ steps < MaxSteps
    /\ \E outcome \in CallOutcomes :
         IF outcome # "ok" THEN Raised(AfterGoverned(outcome))
         ELSE /\ messages' = Append(messages,
                                Msg("ai", "correlation_analyzer", <<"final answer">>))
              /\ node' = END
              /\ visited' = Append(visited, END)
              /\ llm_called' = TRUE
              /\ steps' = steps + 1
              /\ UNCHANGED <<execution_plan, completed_tasks, structured_responses,
                             graphs, fault, last_run>>

\* one TeamResponse per team that ran, each with the responses of its
\* collectors: data that is a result, an error sentinel or an envelope
StageData == {Res("stats"), NoDataSentinel}

TeamEntries(team, agent_name) ==
    {<<>>} \cup {<<TeamResponse(team, <<AgentResponse("task", agent_name, d)>>)>> :
                     d \in StageData}

StageContexts ==
    {s \o k \o m : s \in TeamEntries("sleep_team", "sleep_agent"),
                   k \in TeamEntries("kitchen_team", "kitchen_agent"),
                   m \in TeamEntries("mobility_team", "mobility_agent")}

ScenarioTasks == << [team |-> "sleep_team", instruction |-> "analyze sleep"],
                    [team |-> "kitchen_team", instruction |-> "analyze kitchen"] >>

InitStage ==
    /\ node \in {"generator_node", "correlation_graph_node"}
    /\ messages = <<UserMsg>>
    /\ execution_plan \in {Plan(ScenarioTasks, c) : c \in BOOLEAN}
    /\ completed_tasks = Instructions
    /\ structured_responses \in StageContexts
    /\ graphs \in {<<>>, <<Graph("sleep_chart")>>}
    /\ steps = 0
    /\ visited = <<>>
    /\ fault = "none"
    /\ last_run = NoRun
    /\ llm_called = FALSE
    /\ rg = RgIdle

NextStage ==
    \/ (correlation_graph_node /\ UNCHANGED rg)
    \/ (graph_generator_node /\ UNCHANGED rg)
    \/ (correlation_analyzer_node /\ UNCHANGED rg)

SpecStage == InitStage /\ [][NextStage]_vars

-----------------------------------------------------------------------------
(* supervisor_node called on a state that holds no execution_plan: the     *)
(* node function of make_supervisor_node run on its own, on every context  *)
(* the team collectors can leave behind.                                   *)

InitNoPlan ==
    /\ node = "supervisor"
    /\ messages = <<UserMsg>>
    /\ execution_plan = NoPlan
    /\ completed_tasks = {}
    /\ structured_responses \in StageContexts
    /\ graphs \in {<<>>, <<Graph("sleep_chart")>>}
    /\ steps = 0
    /\ visited = <<"supervisor">>
    /\ fault = "none"
    /\ last_run = NoRun
    /\ llm_called = FALSE
    /\ rg = RgIdle

NextNoPlan == supervisor_node /\ UNCHANGED rg

SpecNoPlan == InitNoPlan /\ [][NextNoPlan]_vars

-----------------------------------------------------------------------------
(* A later turn on a thread.  The graph is compiled with a checkpointer,   *)
(* so a turn on a known thread_id starts from the state the previous turn  *)
(* left: the new question is appended to messages, every other channel     *)
(* keeps its value, and the step count starts again.  The previous turn    *)
(* here asked one team for its data and its charts and then ended with the *)
(* supervisor's answer.                                                    *)

VizNodeOf(team) ==
    CASE team = "sleep_team" -> "sleep_visualization"
      [] team = "kitchen_team" -> "kitchen_visualization_node"
      [] team = "mobility_team" -> "mobility_visualization_node"

VizNameOf(team) ==
    CASE team = "sleep_team" -> "sleep_visualization"
      [] team = "kitchen_team" -> "kitchen_visualization"
      [] team = "mobility_team" -> "mobility_visualization"

SupNameOf(team) ==
    CASE team = "sleep_team" -> "sleep_supervisor"
      [] team = "kitchen_team" -> "kitchen_supervisor"
      [] team = "mobility_team" -> "mobility_supervisor"

CollectorOf(team) ==
    CASE team = "sleep_team" -> "analyze_sleep_node"
      [] team = "kitchen_team" -> "analyze_kitchen_node"
      [] team = "mobility_team" -> "analyze_mobility_node"

AgentOf(team) ==
    CASE team = "sleep_team" -> "sleep_agent"
      [] team = "kitchen_team" -> "kitchen_agent"
      [] team = "mobility_team" -> "mobility_agent"

ReplyNameOf(team) ==
    CASE team = "sleep_team" -> "sleep_node_response"
      [] team = "kitchen_team" -> "kitchen_node_response"
      [] team = "mobility_team" -> "mobility_node_response"

PriorTask == [team |-> "kitchen_team", instruction |-> "analyze kitchen"]

\* the trace of the previous turn: plan, dispatch of the team, its collector,
\* its visualization (the sleep one writes no entry and ends the subgraph),
\* the supervisor's answer
PriorTurnTrace(team) ==
    <<UserMsg,
      Msg("human", "", <<"EXECUTION PLAN">>),
      Msg("human", "supervisor_instruction", <<TaskPrefix, PriorTask.instruction>>),
      Msg("ai", SupNameOf(team), <<"ROUTING", CollectorOf(team)>>),
      Msg("human", ReplyNameOf(team), <<"completed", PriorTask.instruction>>),
      Msg("ai", SupNameOf(team), VizTracking)>>
    \o (IF team = "sleep_team" THEN <<>>
        ELSE <<Msg("human", VizNameOf(team), <<"Visualization completed">>),
               Msg("ai", SupNameOf(team), <<"FINISH">>)>>)
    \o <<Msg("ai", "supervisor", <<"final answer">>)>>

InitThread ==
    \E team \in Teams :
        /\ node = "conversational_router"
        /\ messages = PriorTurnTrace(team) \o <<UserMsg>>
        /\ execution_plan = Plan(<<PriorTask>>, FALSE)
        /\ completed_tasks = {PriorTask.instruction}
        /\ structured_responses =
               <<TeamResponse(team, <<AgentResponse(PriorTask.instruction,
                                                    AgentOf(team), Res("stats"))>>)>>
        /\ graphs = <<>>
        /\ steps = 0
        /\ visited = <<"conversational_router">>
        /\ fault = "none"
        /\ last_run = NoRun
        /\ llm_called = FALSE
        /\ rg = RgIdle

SpecThread == InitThread /\ [][Next]_vars

-----------------------------------------------------------------------------
(* Properties *)

CollectorNodes == {"analyze_sleep_node", "analyze_heart_node",
                   "analyze_kitchen_node", "analyze_mobility_node"}

TeamOfCollector(n) ==
    CASE n = "analyze_sleep_node" -> "sleep_team"
      [] n = "analyze_heart_node" -> "sleep_team"
      [] n = "analyze_kitchen_node" -> "kitchen_team"
      [] n = "analyze_mobility_node" -> "mobility_team"

TerminalBranch == {"generator_node", "correlation_graph_node",
                   "correlation_analyzer", END}

IsPrefix(a, b) == Len(a) <= Len(b) /\ SubSeq(b, 1, Len(a)) = a

LastOf(s) == s[Len(s)]

\* C1: the top-level supervisor dispatches the first task of the plan whose
\* instruction is not yet completed (so tasks go out in plan order, once
\* each), and it leaves for the terminal branch exactly when every
\* instruction of the plan is in completed_tasks.
C1_DispatchInPlanOrder ==
    [][ (node = "supervisor" /\ node' # CRASH) =>
          IF execution_plan.present
             /\ ~AllCompleted(execution_plan, completed_tasks)
          THEN LET task == get_next_task(execution_plan.tasks, completed_tasks)
               IN /\ node' = TeamSupervisorOf(task.team)
                  /\ LastOf(messages').name = "supervisor_instruction"
                  /\ LastOf(messages').content = <<TaskPrefix, task.instruction>>
          ELSE node' \in TerminalBranch ]_vars

\* C2: once the planner has stored a plan, a plan whose tasks name more than
\* one distinct team has cross_domain = TRUE, whatever the planning chain
\* returned.
C2_CrossDomainForced ==
    (execution_plan.present /\ DistinctTeams(execution_plan.tasks) > 1)
        => execution_plan.cross_domain

UniqueTeams(responses) ==
    \A i, j \in 1..Len(responses) :
        i # j => responses[i].team_name # responses[j].team_name

\* C3: structured_responses holds at most one TeamResponse per team name;
\* every step leaves each team's earlier responses in place (the old list is
\* a prefix of the new one), and a collector run adds exactly one response
\* to its team.
C3_TeamResultsAppendOnly ==
    /\ [] UniqueTeams(structured_responses)
    /\ [][ /\ \A t \in Teams :
                IsPrefix(ResponsesOf(structured_responses, t),
                         ResponsesOf(structured_responses', t))
           /\ (node \in CollectorNodes /\ last_run' # last_run) =>
                Len(ResponsesOf(structured_responses', TeamOfCollector(node))) =
                Len(ResponsesOf(structured_responses, TeamOfCollector(node))) + 1
         ]_vars

\* a team holds two responses, the second appended after the first
C3_Witness ==
    \E i \in 1..Len(structured_responses) :
        Len(structured_responses[i].structured_responses) >= 2

\* the delay a rate-limit failure carries, 60 seconds when it carries none
CarriedDelay(f) ==
    IF f.retry_delay # -1 THEN f.retry_delay
    ELSE IF f.block /\ f.seconds # -1 THEN f.seconds
    ELSE 60

\* C4: when the wrapped callable fails with a rate-limit failure k times
\* (k <= max_retries) and then succeeds, the wrapper has slept k times, the
\* i-th sleep for the delay carried by the i-th failure (60 seconds when it
\* carries none or it cannot be parsed), and returns the success value.
C4_RetrySuccessPath ==
    (rg.pc = "returned" /\ rg.calls # <<>> /\ LastOf(rg.calls).kind = "ok") =>
        LET k == Len(rg.calls) - 1
        IN /\ k <= rg.max_retries
           /\ \A i \in 1..k : rg.calls[i].kind = "rate_limit"
           /\ Len(rg.sleeps) = k
           /\ \A i \in 1..k : rg.sleeps[i] = CarriedDelay(rg.calls[i].failure)
           /\ rg.result = LastOf(rg.calls).val

\* success on the last allowed attempt, after a default and a parsed delay
C4_Witness ==
    /\ rg.pc = "returned"
    /\ rg.max_retries >= 2
    /\ Len(rg.sleeps) = rg.max_retries
    /\ 60 \in Range(rg.sleeps)
    /\ 7 \in Range(rg.sleeps)
    /\ rg.result = "result B"

\* C5 (as stated): for a callable that always fails with a rate-limit
\* failure, the wrapper raises after exactly max_retries attempts.
C5_RaisesAfterMaxRetriesAttempts ==
    (rg.pc = "raised" /\ rg.raised = "ResourceExhausted") =>
        rg.attempts = rg.max_retries

\* C5 (amended): for a callable that always fails with a rate-limit failure,
\* the wrapper raises after exactly max_retries + 1 attempts (the first
\* attempt and max_retries retries), having slept max_retries times.
C5_RaisesAfterMaxRetriesPlusOne ==
    (rg.pc = "raised" /\ rg.raised = "ResourceExhausted") =>
        /\ rg.attempts = rg.max_retries + 1
        /\ Len(rg.calls) = rg.attempts
        /\ \A i \in 1..Len(rg.calls) : rg.calls[i].kind = "rate_limit"
        /\ Len(rg.sleeps) = rg.max_retries

\* exhaustion with the default max_retries
C5_Witness ==
    /\ rg.pc = "raised"
    /\ rg.raised = "ResourceExhausted"
    /\ rg.max_retries = DefaultMaxRetries
    /\ rg.attempts = DefaultMaxRetries + 1

\* C6: when an attempt fails with a failure that is not a rate-limit failure
\* (a timeout included), the wrapper raises that failure at once: the
\* attempt is the last one and no sleep follows it; failing so at the first
\* attempt means one attempt and no sleep at all.
C6_NonRetryablePropagates ==
    (rg.calls # <<>> /\ LastOf(rg.calls).kind = "other") =>
        /\ rg.pc = "raised"
        /\ rg.raised = LastOf(rg.calls).val
        /\ rg.attempts = Len(rg.calls)
        /\ Len(rg.sleeps) = Len(rg.calls) - 1
        /\ \A i \in 1..(Len(rg.calls) - 1) : rg.calls[i].kind = "rate_limit"

\* a timeout at the first attempt
C6_Witness ==
    /\ rg.pc = "raised"
    /\ rg.raised = "DeadlineExceeded"
    /\ rg.attempts = 1
    /\ rg.sleeps = <<>>

ScenarioA == Plan(ScenarioTasks, FALSE)

\* C7: Scenario A. For the plan [(sleep_team, "analyze sleep"),
\* (kitchen_team, "analyze kitchen")] with cross_domain = FALSE, a turn that
\* has ended went sleep_team, supervisor, kitchen_team, supervisor and then
\* to synthesis, and never entered the cross-domain stage.
C7_ScenarioARoute ==
    (execution_plan = ScenarioA /\ node = END) =>
        \E tail \in {<<END>>, <<"correlation_analyzer", END>>} :
            visited = <<"conversational_router", "planner", "supervisor",
                        "sleep_team", "supervisor", "kitchen_team",
                        "supervisor">> \o tail

\* C8: when every task of the plan is completed, the top-level supervisor
\* routes to the cross-domain stage if plan.cross_domain is TRUE and to
\* synthesis otherwise.
C8_TerminalBranch ==
    [][ (/\ node = "supervisor"
         /\ node' # CRASH
         /\ execution_plan.present
         /\ AllCompleted(execution_plan, completed_tasks)) =>
          IF execution_plan.cross_domain
          THEN node' \in {"generator_node", "correlation_graph_node"}
          ELSE node' \in {"correlation_analyzer", END} ]_vars

LastInstruction(msgs) == msgs[MaxOf(InstructionIndexes(msgs))].content[2]

\* C9: Scenario C. When the only tool call of a collector run returned the
\* error sentinel, the response the node records carries exactly that
\* sentinel, the instruction is added to completed_tasks, the node ran once
\* and control is with the team supervisor, no exception raised.
C9_ErrorSentinelPassesThrough ==
    [][ (/\ node \in CollectorNodes
         /\ last_run' # last_run
         /\ last_run'.tools = <<JsonOf(NoDataSentinel)>>) =>
          LET team == TeamOfCollector(node)
              before == ResponsesOf(structured_responses, team)
              after == ResponsesOf(structured_responses', team)
          IN /\ Len(after) = Len(before) + 1
             /\ LastOf(after).data = NoDataSentinel
             /\ LastInstruction(messages) \in completed_tasks'
             /\ node' = TeamSupervisorOf(team)
             /\ fault' = "none"
             /\ steps' = steps + 1 ]_vars

\* a collector has just served its instruction with the sentinel as data
C9_Witness ==
    /\ last_run.tools = <<JsonOf(NoDataSentinel)>>
    /\ last_run.step = steps
    /\ node = TeamSupervisorOf(TeamOfCollector(last_run.node))
    /\ last_run.task \in completed_tasks
    /\ LastOf(ResponsesOf(structured_responses,
                          TeamOfCollector(last_run.node))).data = NoDataSentinel

DomainsWithData(responses) ==
    {t \in Teams :
        \E i \in 1..Len(responses) :
            /\ responses[i].team_name = t
            /\ \E j \in 1..Len(responses[i].structured_responses) :
                 ~HasErrorKey(responses[i].structured_responses[j].data)}

\* C10: Scenario D. The cross-domain stage adds an artifact only when at
\* least two domains have non-error data; with fewer than two it makes no
\* inference call, adds no artifact, appends a trace note and routes to
\* synthesis.
C10_NeedsTwoDomains ==
    [][ (/\ node \in {"generator_node", "correlation_graph_node"}
         /\ steps' = steps + 1) =>
          LET n == Cardinality(DomainsWithData(structured_responses))
          IN /\ (graphs' # graphs => n >= 2)
             /\ (n < 2 => /\ ~llm_called'
                          /\ graphs' = graphs
                          /\ Len(messages') = Len(messages) + 1
                          /\ node' = "correlation_analyzer") ]_vars

SynthesisNames == {"supervisor", "correlation_analyzer"}

\* the turn has ended with the answer of a synthesis call as its last entry
SynthesisAnswered ==
    /\ node = END
    /\ fault = "none"
    /\ LastOf(messages).type = "ai"
    /\ LastOf(messages).name \in SynthesisNames

\* a governed call gave up on a rate-limit failure (the caller then reads
\* the result it never got)
GovernedCallExhausted == fault = "UnboundLocalError"

\* C11: in every turn whose plan was compiled and in which no governed call
\* exhausts its rate-limit retries, synthesis eventually runs and the turn
\* ends with its answer.
C11_SynthesisAlwaysRuns ==
    execution_plan.present ~> (SynthesisAnswered \/ GovernedCallExhausted)

TeamSupervisors == {TeamSupervisorOf(t) : t \in Teams}

VisualizationNodes == {"sleep_visualization", "kitchen_visualization_node",
                       "mobility_visualization_node"}

TeamNodes == TeamSupervisors \cup CollectorNodes \cup VisualizationNodes

\* a team supervisor has just recorded the decision finish
TeamFinished ==
    /\ node \in TeamSupervisors
    /\ Len(messages') = Len(messages) + 1
    /\ LastOf(messages').content = <<"FINISH">>

\* C12: when a team supervisor decides finish, only the team's subgraph
\* ends: the next node is the top-level supervisor and no exception is
\* raised; no step of a team node ends the pipeline.
C12_TeamFinishReturnsToSupervisor ==
    [][ /\ TeamFinished => /\ node' = "supervisor"
                           /\ LastOf(visited') = "supervisor"
                           /\ fault' = "none"
        /\ node \in TeamNodes => node' # END ]_vars

\* the kitchen supervisor has finished and the top-level supervisor is next
C12_Witness ==
    /\ node = "supervisor"
    /\ LastOf(messages).name = "kitchen_supervisor"
    /\ LastOf(messages).content = <<"FINISH">>
    /\ LastOf(visited) = "supervisor"
    /\ Len(visited) >= 2
    /\ visited[Len(visited) - 1] = "kitchen_team"

\* C13: when the top-level supervisor runs on a context that holds no plan
\* it dispatches no team: it routes to synthesis (there with an error
\* marker) and writes no task instruction.
C13_MissingPlanGoesToSynthesis ==
    [][ (node = "supervisor" /\ ~execution_plan.present /\ node' # CRASH) =>
          /\ node' \in {"correlation_analyzer", END}
          /\ LastOf(messages').name # "supervisor_instruction" ]_vars

\* the planning chain answered with a structure the parser rejects, or
\* with an empty task list
PlanCompilationFailed ==
    \/ fault = "OutputParserException"
    \/ execution_plan.present /\ execution_plan.tasks = <<>>

\* C14: when the planning chain returns an empty task list or a malformed
\* structure, the turn is over after the planner step (no team, cross-domain
\* or synthesis node runs) and the caller gets the minimal apology response.
C14_CompilationFailureApologises ==
    [][ (node = "planner" /\ PlanCompilationFailed') =>
          /\ node' \in {END, CRASH}
          /\ chat_endpoint'.status = 200
          /\ chat_endpoint'.message = Apology ]_vars

TurnOver == node \in {END, CRASH}

\* C15: a turn never takes more node steps than the cap; with a node still
\* pending at the cap the run is aborted with GraphRecursionError; the
\* caller then gets an error and no answer, artifact or response of the
\* turn; and every turn comes to an end.
C15_IterationCapAborts ==
    /\ [](steps <= MaxSteps)
    /\ [][ (steps = MaxSteps /\ ~TurnOver) =>
             (node' = CRASH /\ fault' = "GraphRecursionError") ]_vars
    /\ [](fault = "GraphRecursionError" =>
             /\ TurnOver
             /\ chat_endpoint.status = 500
             /\ chat_endpoint.message = NoAnswer
             /\ chat_endpoint.graphs = <<>>
             /\ chat_endpoint.structured_responses = <<>>)
    /\ <>TurnOver

\* the cap was hit while the trace already held AI messages and responses
C15_Witness ==
    /\ fault = "GraphRecursionError"
    /\ steps = MaxSteps
    /\ AiIndexes(messages) # {}
    /\ structured_responses # <<>>
    /\ chat_endpoint.status = 500

\* every artifact of the context is still in the context after the step
ArtifactsKept ==
    \A i \in 1..Len(graphs) : \E j \in 1..Len(graphs') : graphs'[j] = graphs[i]

\* C16: the artifacts accumulated in the context reach the response payload:
\* no step drops an artifact the context holds, and when synthesis has
\* answered the payload carries that answer and the whole artifacts list.
C16_PayloadHoldsEveryArtifact ==
    /\ [][ArtifactsKept]_vars
    /\ [](SynthesisAnswered =>
            /\ chat_endpoint.status = 200
            /\ chat_endpoint.message = LastOf(messages).content
            /\ chat_endpoint.graphs = graphs)

\* C17: no team supervisor routes to its visualization collector while the
\* plan is cross-domain.
C17_NoTeamVisualizationWhenCrossDomain ==
    [][ (/\ node \in TeamSupervisors
         /\ execution_plan.present
         /\ execution_plan.cross_domain) =>
          node' \notin VisualizationNodes ]_vars

\* the entry of the trace that opens the current turn
TurnStart(msgs) == MaxOf({i \in 1..Len(msgs) : msgs[i] = UserMsg})

\* trace entries that record a completed visualization of the team
CompletionMarkers(msgs, team) ==
    {i \in 1..Len(msgs) : /\ msgs[i].name = VizNameOf(team)
                          /\ msgs[i].content = <<"Visualization completed">>}

CompletedThisTurn(team) ==
    \E i \in CompletionMarkers(messages, team) : i > TurnStart(messages)

CompletedInPriorTurn(team) ==
    \E i \in CompletionMarkers(messages, team) : i < TurnStart(messages)

\* C18: once the trace of the turn holds a team's visualization-completed
\* marker, that team's supervisor does not route to the visualization
\* collector again, whatever the policy call returns (so the collector runs
\* at most once in the turn); this for the three team supervisors.
C18_VisualizationAtMostOncePerTurn ==
    [][ \A team \in Teams :
          (node = TeamSupervisorOf(team) /\ CompletedThisTurn(team)) =>
              node' # VizNodeOf(team) ]_vars

\* C19: on a thread whose trace records a visualization completion of a
\* team in an earlier turn, that team's supervisor never routes to the
\* visualization collector in a later turn.
C19_CrossTurnVisualizationDowngrade ==
    [][ \A team \in Teams :
          (node = TeamSupervisorOf(team) /\ CompletedInPriorTurn(team)) =>
              node' # VizNodeOf(team) ]_vars

\* the tool outputs of a run as the node reads them, in observation order
ObservedOutputs(run) ==
    [i \in 1..Len(run) |->
        IF run[i].json THEN run[i].val ELSE Err("JSON parsing failed")]

\* C20: with n the number of tool outputs of a collector run, the data of
\* the response the run records is an error sentinel when n = 0, the single
\* output when n = 1, and the envelope of the n outputs in order with the
\* count n when n > 1; for the sleep, heart, kitchen and mobility collectors.
C20_CollectorAggregation ==
    [][ (node \in CollectorNodes /\ last_run' # last_run) =>
          LET run == last_run'.tools
              n == Len(run)
              data == LastOf(ResponsesOf(structured_responses',
                                         TeamOfCollector(node))).data
          IN /\ (n = 0 => HasErrorKey(data))
             /\ (n = 1 => data = ObservedOutputs(run)[1])
             /\ (n > 1 => data = Envelope(ObservedOutputs(run), n)) ]_vars

Dispatched ==
    /\ node = "supervisor"
    /\ node' \in TeamSupervisors

SupervisorRoutes == TeamSupervisors \cup {END, CRASH}

\* C23: the step of the top-level supervisor is deterministic and makes no
\* call to the inference service: from one context (one plan, one
\* completed_tasks) the step cannot yield two different routes, and no step
\* of the supervisor calls the inference service.
C23_SupervisorDeterministic ==
    (node = "supervisor" /\ execution_plan.present) =>
        /\ \A a, b \in SupervisorRoutes :
              (/\ ENABLED (supervisor_node /\ node' = a)
               /\ ENABLED (supervisor_node /\ node' = b)) => a = b
        /\ ~ENABLED (supervisor_node /\ llm_called')

-----------------------------------------------------------------------------
(* ExecutionPlan.get_next_task called on its own: a plan and a set of      *)
(* completed instruction texts                                             *)

PlannableTasks ==
    TaskPool \cup {[team |-> "mobility_team", instruction |-> "analyze mobility"],
                   [team |-> "kitchen_team", instruction |-> "analyze sleep"]}

CompletedTexts ==
    {t.instruction : t \in PlannableTasks} \cup {"rephrased task"}

get_next_task_call ==
    /\ rg.fn = "get_next_task"
    /\ rg.pc = "loop"
    /\ rg' = [rg EXCEPT !.pc = "returned",
                        !.result = get_next_task(execution_plan.tasks, completed_tasks)]
    /\ UNCHANGED pipeline_vars

InitNextTask ==
    /\ node = END
    /\ messages = <<UserMsg>>
    /\ \E tasks \in SeqsUpTo(PlannableTasks, MaxTasks), cross_domain \in BOOLEAN :
         execution_plan = Plan(tasks, cross_domain)
    /\ completed_tasks \in SUBSET CompletedTexts
    /\ structured_responses = <<>>
    /\ graphs = <<>>
    /\ steps = 0
    /\ visited = <<>>
    /\ fault = "none"
    /\ last_run = NoRun
    /\ llm_called = FALSE
    /\ rg = RgCall("get_next_task", 0)

NextNextTask == get_next_task_call

SpecNextTask == InitNextTask /\ [][NextNextTask]_vars

\* C24: get_next_task(completed) returns the first task, in plan order,
\* whose instruction is not in completed; it returns no task exactly when
\* every instruction of the plan is in completed; a task whose instruction
\* is in completed is never returned.
C24_NextTaskIsFirstPending ==
    (rg.fn = "get_next_task" /\ rg.pc = "returned") =>
        LET tasks == execution_plan.tasks
            r == rg.result
        IN /\ (r = NoTask) <=>
                  (\A i \in 1..Len(tasks) : tasks[i].instruction \in completed_tasks)
           /\ (r # NoTask) =>
                  /\ r.instruction \notin completed_tasks
                  /\ \E i \in 1..Len(tasks) :
                        /\ tasks[i] = r
                        /\ \A j \in 1..(i - 1) :
                              tasks[j].instruction \in completed_tasks

\* the call skipped a completed first task and returned the second one
C24_Witness ==
    /\ rg.fn = "get_next_task"
    /\ rg.pc = "returned"
    /\ Len(execution_plan.tasks) >= 2
    /\ execution_plan.tasks[1].instruction \in completed_tasks
    /\ rg.result = execution_plan.tasks[2]
    /\ rg.result # execution_plan.tasks[1]
    /\ completed_tasks # {}

-----------------------------------------------------------------------------

\* instructions already served: the task of every AgentResponse recorded in
\* structured_responses
ServedTasks(responses) ==
    {Flatten(responses)[i].task : i \in 1..Len(Flatten(responses))}

\* C25: at every step of the top-level supervisor an instruction that is the
\* task of an AgentResponse recorded in the context counts as completed: it
\* is never dispatched to a team again (a policy proposal naming it takes
\* the terminal branch instead).
C25_NoRedispatchOfServedInstruction ==
    [][ Dispatched =>
          LastOf(messages').content[2] \notin ServedTasks(structured_responses)
      ]_vars

-----------------------------------------------------------------------------

\* nodes whose inference call is made through invoke_with_retry or
\* invoke_with_structured_output
GovernedNodes == {"kitchen_team_supervisor", "analyze_kitchen_node",
                  "analyze_mobility_node", "kitchen_visualization_node",
                  "mobility_visualization_node", "correlation_analyzer"}

\* C26: every call that the planner, a team supervisor, a collector, a
\* visualization node, a cross-domain node or the synthesis makes to the
\* inference service goes through the retry wrapper: a rate-limit failure
\* ends a turn only at a node whose call is governed, that is after the
\* wrapper's waits and retries, never as the immediate failure of an
\* unwrapped call.
C26_RateLimitFaultOnlyAfterRetries ==
    [][ (/\ node # "conversational_router"
         /\ fault = "none"
         /\ fault' = "ResourceExhausted") =>
          node \in GovernedNodes ]_vars

\* failures a call to the inference service can raise
CallFailures == CallOutcomes \ {"ok"}

\* C27: when the governed call of a node exhausts its retries, the
\* rate-limit failure itself is raised to the node's caller and ends the
\* turn: a governed node that ends the turn ends it with a failure its
\* inference call raised, never with a failure of its own code reading a
\* result that was not produced, and it leaves structured_responses and
\* completed_tasks as they were.
C27_ExhaustionReRaisesRateLimit ==
    [][ (node \in GovernedNodes /\ node' = CRASH /\ steps' = steps + 1) =>
          /\ fault' \in CallFailures
          /\ structured_responses' = structured_responses
          /\ completed_tasks' = completed_tasks ]_vars

-----------------------------------------------------------------------------

\* the nodes that make up the cross-domain stage
CrossDomainStage == {"generator_node", "correlation_graph_node"}

\* C28: the cross-domain stage is never fatal: whenever one of its nodes
\* runs, whatever its inference call, fallback or rendering did, the node
\* run next is the synthesis, and graphs is either unchanged (failure) or
\* extended by exactly one artifact (success).
C28_CrossDomainStageNeverFatal ==
    [][ (node \in CrossDomainStage /\ steps' = steps + 1) =>
          /\ node' = "correlation_analyzer"
          /\ fault' = "none"
          /\ \/ graphs' = graphs
             \/ graphs' = Append(graphs, LastOf(graphs')) ]_vars

-----------------------------------------------------------------------------

\* the tool outputs a collector run kept, in order: the data itself for one
\* output (the heart collector keeps the first one only), the results of
\* the envelope for several
KeptOutputs(collector, run, data) ==
    IF Len(run) = 0 THEN <<>>
    ELSE IF Len(run) = 1 \/ collector = "analyze_heart_node" THEN <<data>>
    ELSE data.results

\* what a node raises when its call to the inference service failed: the
\* failure itself, or the error of reading the result the call never bound
InferenceFaults == CallFailures \cup {AfterGoverned(o) : o \in CallFailures}

\* C29: a collector never raises on a tool-level failure. A collector step
\* raises only a failure of its inference call, whatever the tools
\* returned; when the agent run returns, an output that is an error
\* sentinel is kept unchanged as data, an output that cannot be parsed is
\* kept as an error sentinel, and control returns to the team supervisor
\* with no exception raised.
C29_ToolFailureNeverRaises ==
    [][ (node \in CollectorNodes /\ steps' = steps + 1) =>
          /\ fault' # "none" => fault' \in InferenceFaults
          /\ last_run' # last_run =>
                LET run == last_run'.tools
                    data == LastOf(ResponsesOf(structured_responses',
                                               TeamOfCollector(node))).data
                    kept == KeptOutputs(node, run, data)
                IN /\ node' = TeamSupervisorOf(TeamOfCollector(node))
                   /\ fault' = "none"
                   /\ \A i \in 1..Len(kept) :
                         /\ (run[i].json /\ HasErrorKey(run[i].val)) =>
                                kept[i] = run[i].val
                         /\ ~run[i].json => HasErrorKey(kept[i]) ]_vars

\* the mobility collector has just finished a run whose first tool output
\* could not be parsed and whose second was the error sentinel
C29_Witness ==
    /\ last_run.node = "analyze_mobility_node"
    /\ last_run.step = steps
    /\ last_run.tools = <<NotJson, JsonOf(NoDataSentinel)>>
    /\ node = "mobility_team_supervisor"
    /\ fault = "none"
    /\ LastOf(ResponsesOf(structured_responses, "mobility_team")).data =
           Envelope(<<Err("JSON parsing failed"), NoDataSentinel>>, 2)

-----------------------------------------------------------------------------

\* C30: a node changes the shared context only through the patch it
\* returns: when a collector returns its patch, the objects it received
\* from the context (structured_responses, the responses of each
\* TeamResponse, completed_tasks) are as it received them.
C30_ReceivedContextNotMutated ==
    last_run.held = last_run.received

-----------------------------------------------------------------------------

\* every name a Command of the graph can hand control to
NodeNames ==
    {"conversational_router", "planner", "supervisor", "generator_node",
     "correlation_graph_node", "correlation_analyzer"}
    \cup TeamSupervisors \cup CollectorNodes \cup VisualizationNodes

\* trace entries by which a team supervisor handed control to a collector
RoutedRuns(msgs) ==
    {i \in 1..Len(msgs) : msgs[i].content[1] = "ROUTING"}

\* the collector a team supervisor started has returned: its completion
\* entry directly follows the routing entry
HasReturned(msgs, i) ==
    /\ i + 1 <= Len(msgs)
    /\ msgs[i + 1].content[1] = "completed"

\* C31: execution is strictly sequential. Every node step hands control to
\* exactly one next node (or ends the turn), and whenever the top-level
\* supervisor dispatches a task to a team, every collector that was started
\* for an earlier task has returned, whichever team it belongs to.
C31_StrictlySequential ==
    [][ /\ steps' = steps + 1 => node' \in NodeNames \cup {END, CRASH}
        /\ Dispatched =>
              \A i \in RoutedRuns(messages) : HasReturned(messages, i) ]_vars

\* after the collector of one team has returned, the top-level supervisor
\* has just dispatched a task to another team
C31_Witness ==
    /\ node \in TeamSupervisors
    /\ LastOf(messages).name = "supervisor_instruction"
    /\ last_run.node # ""
    /\ TeamSupervisorOf(TeamOfCollector(last_run.node)) # node
    /\ RoutedRuns(messages) # {}

-----------------------------------------------------------------------------

\* C32: artifacts are append-only within a turn: every step of a team's
\* visualization node or of a cross-domain node leaves graphs equal to the
\* previous sequence followed by the artifacts it produced, so an artifact
\* produced earlier is still present afterwards.
C32_ArtifactsAppendOnly ==
    [][ (node \in VisualizationNodes \cup CrossDomainStage /\ steps' = steps + 1) =>
          IsPrefix(graphs, graphs') ]_vars

-----------------------------------------------------------------------------
(* Every node build_graph and the team graphs register, together with the  *)
(* cross-domain nodes started on the contexts the teams can leave behind   *)

InitAll == Init \/ InitStage

NextAll == Next \/ NextStage

SpecAll == InitAll /\ [][NextAll]_vars

\* C33: the trace is append-only: no node step removes or rewrites an
\* existing entry; after any node step the previous trace is a prefix of
\* the new one.
C33_HistoryAppendOnly ==
    [][ steps' = steps + 1 => IsPrefix(messages, messages') ]_vars

\* the graph generator has just added its entries behind a trace that
\* already held the user's question
C33_Witness ==
    /\ node = "correlation_analyzer"
    /\ Len(messages) >= 3
    /\ LastOf(messages).name = "graph_generator"
    /\ messages[1] = UserMsg

-----------------------------------------------------------------------------

\* C34: completion identity is the instruction text. get_next_task never
\* returns a task whose instruction text is in completed, whichever task
\* of the plan that text was completed for, so completing one of two tasks
\* with the same text makes it skip the other; and a task whose text is not
\* in completed is still pending, whatever other texts completed holds.
C34_CompletionIdentityIsInstructionText ==
    (rg.fn = "get_next_task" /\ rg.pc = "returned") =>
        LET tasks == execution_plan.tasks
        IN /\ \A i \in 1..Len(tasks) :
                 tasks[i].instruction \in completed_tasks =>
                     /\ rg.result # tasks[i]
                     /\ \A j \in 1..Len(tasks) :
                           tasks[j].instruction = tasks[i].instruction =>
                               rg.result # tasks[j]
           /\ (\E i \in 1..Len(tasks) : tasks[i].instruction \notin completed_tasks)
                 => /\ rg.result # NoTask
                    /\ rg.result.instruction \notin completed_tasks

\* two tasks of different teams carry the same text, that text and a text
\* the plan does not hold are completed, and the call returned no task
C34_Witness ==
    /\ rg.fn = "get_next_task"
    /\ rg.pc = "returned"
    /\ Len(execution_plan.tasks) = 2
    /\ execution_plan.tasks[1].team # execution_plan.tasks[2].team
    /\ execution_plan.tasks[1].instruction = execution_plan.tasks[2].instruction
    /\ completed_tasks = {execution_plan.tasks[1].instruction, "rephrased task"}
    /\ rg.result = NoTask

-----------------------------------------------------------------------------
(* A turn on a thread whose earlier turn left a kitchen result and a        *)
(* kitchen chart in the checkpointed state                                 *)

PriorResponse ==
    AgentResponse(PriorTask.instruction, AgentOf("kitchen_team"), Res("stats"))

PriorChart == Graph("kitchen_chart")

InitThreadCharts ==
    /\ node = "conversational_router"
    /\ messages = PriorTurnTrace("kitchen_team") \o <<UserMsg>>
    /\ execution_plan = Plan(<<PriorTask>>, FALSE)
    /\ completed_tasks = {PriorTask.instruction}
    /\ structured_responses = <<TeamResponse("kitchen_team", <<PriorResponse>>)>>
    /\ graphs = <<PriorChart>>
    /\ steps = 0
    /\ visited = <<"conversational_router">>
    /\ fault = "none"
    /\ last_run = NoRun
    /\ llm_called = FALSE
    /\ rg = RgIdle

SpecThreadCharts == InitThreadCharts /\ [][Next]_vars

\* the results and artifacts of the earlier turn are in the context
EarlierTurnKept ==
    /\ \E i \in 1..Len(Flatten(structured_responses)) :
          Flatten(structured_responses)[i] = PriorResponse
    /\ \E j \in 1..Len(graphs) : graphs[j] = PriorChart

\* the top-level supervisor has just taken the synthesis branch
Synthesised ==
    /\ node = "supervisor"
    /\ node' = END

\* C35: at the start of a turn on a persisted thread the planner step sets
\* completed_tasks to the empty set and stores the new plan, and leaves
\* structured_responses and graphs unchanged; so the results and artifacts
\* of the earlier turn are still in the context whenever a task of the new
\* turn is dispatched and when the turn is synthesised.
C35_EarlierTurnSurvivesNewTurn ==
    /\ [][ (node = "planner" /\ node' = "supervisor") =>
             /\ completed_tasks' = {}
             /\ execution_plan'.present
             /\ structured_responses' = structured_responses
             /\ graphs' = graphs ]_vars
    /\ [][ (Dispatched \/ Synthesised) => EarlierTurnKept ]_vars

-----------------------------------------------------------------------------

\* C36: within a turn completed_tasks only grows: after the planner step no
\* node step removes an element from it, and only the collectors add to it;
\* team supervisors, visualization nodes, the cross-domain nodes and the
\* synthesis leave it unchanged.
C36_CompletedTasksOnlyGrow ==
    [][ (node \notin {"conversational_router", "planner"} /\ steps' = steps + 1) =>
          /\ completed_tasks \subseteq completed_tasks'
          /\ node \notin CollectorNodes => completed_tasks' = completed_tasks ]_vars

\* a collector has added its instruction and the team's visualization node
\* has run after it
C36_Witness ==
    /\ node \in TeamSupervisors
    /\ last_run.step = steps - 2
    /\ last_run.task \in completed_tasks
    /\ LastOf(messages).name \in {"kitchen_visualization", "mobility_visualization"}

-----------------------------------------------------------------------------

\* teams whose supervisor applies the safety checks to the policy decision
GuardedTeams == {"sleep_team", "mobility_team"}

\* the team's visualization node has run and returned: the team supervisor
\* handed control to it earlier and is in control again
VisualizationReturned(team) ==
    /\ node = TeamSupervisorOf(team)
    /\ \E i \in NamedIndexes(messages, SupNameOf(team)) :
          messages[i].content = VizTracking

\* C37: in the sleep and mobility team supervisors, once the trace holds a
\* visualization entry of the team every decision of the supervisor is
\* finish, whatever the policy call returned; hence once the team's
\* visualization node has returned, the supervisor starts no collector of
\* the team.
C37_FinishAfterVisualization ==
    [][ \A team \in GuardedTeams :
          /\ (/\ node = TeamSupervisorOf(team)
              /\ NamedIndexes(messages, VizNameOf(team)) # {}
              /\ steps' = steps + 1
              /\ node' # CRASH) => node' = "supervisor"
          /\ (VisualizationReturned(team) /\ steps' = steps + 1) =>
                 node' \notin CollectorNodes ]_vars

-----------------------------------------------------------------------------

\* C38: a team's visualization node always returns control to its own team
\* supervisor and appends exactly one trace entry named after the team's
\* visualization, whether it skipped for lack of data, completed or failed;
\* it never changes structured_responses or completed_tasks.
C38_VisualizationReturnsToTeamSupervisor ==
    [][ \A team \in Teams :
          (node = VizNodeOf(team) /\ steps' = steps + 1) =>
              /\ node' = TeamSupervisorOf(team)
              /\ Len(messages') = Len(messages) + 1
              /\ IsPrefix(messages, messages')
              /\ LastOf(messages').name = VizNameOf(team)
              /\ structured_responses' = structured_responses
              /\ completed_tasks' = completed_tasks ]_vars

-----------------------------------------------------------------------------

\* C39: every turn starts at the conversational router. When its decision
\* is FINISH it appends a direct answer and ends the turn, and nothing runs
\* after the end of a turn: no planner, no team, no synthesis. Otherwise
\* the next node is the planner and the router adds no trace entry.
C39_ConversationalEntryRouting ==
    /\ [](steps = 0 => node = "conversational_router")
    /\ [][ (node = "conversational_router" /\ steps' = steps + 1 /\ node' # CRASH) =>
             \/ /\ node' = END
                /\ messages' = Append(messages, LastOf(messages'))
                /\ LastOf(messages').type = "ai"
                /\ UNCHANGED <<execution_plan, completed_tasks,
                               structured_responses, graphs>>
             \/ /\ node' = "planner"
                /\ messages' = messages ]_vars
    /\ [][ node # END ]_vars

\* the router answered directly and the turn ended after its single step
C39_Witness ==
    /\ node = END
    /\ steps = 1
    /\ visited = <<"conversational_router", END>>
    /\ LastOf(messages).type = "ai"
    /\ ~execution_plan.present
    /\ structured_responses = <<>>

-----------------------------------------------------------------------------
(* Domain tools: filtering the sensor data by subject and by period.       *)
(* A timestamp is a day number or NaT, pandas' missing timestamp: the     *)
(* max() of an empty column is NaT, arithmetic on NaT gives NaT and every  *)
(* comparison with NaT is False.                                           *)

NaT == [nat |-> TRUE, day |-> 0]
Timestamp(d) == [nat |-> FALSE, day |-> d]
DataDays == 1..MaxDay
DataSubjects == {1, 2}
DataRows == [subject_id : DataSubjects, day : DataDays]

\* the period argument: 'last_N_days', 'start,end', or a text that starts
\* with 'last_' whose second field is not a number (int() raises ValueError)
Periods ==
    [kind : {"last"}, days : 0..MaxDay, start : {0}, end : {0}]
        \cup [kind : {"range"}, days : {0}, start : DataDays, end : DataDays]
        \cup [kind : {"malformed"}, days : {0}, start : {0}, end : {0}]

WellFormedPeriod(period) == period.kind \in {"last", "range"}

\* df[df['subject_id'] == subject_id]
FilterSubject(rows, subject_id) == {r \in rows : r.subject_id = subject_id}

\* df_subject[column].max()
MaxDate(rows) ==
    IF rows = {} THEN NaT
    ELSE Timestamp(CHOOSE d \in {r.day : r \in rows} : \A r \in rows : r.day <= d)

\* the parsing of the period into start_date and end_date
PeriodBounds(df_subject, period) ==
    IF period.kind = "last"
    THEN LET end_date == MaxDate(df_subject)
         IN [start_date |-> IF end_date.nat THEN NaT
                            ELSE Timestamp(end_date.day - period.days),
             end_date |-> end_date]
    ELSE [start_date |-> Timestamp(period.start), end_date |-> Timestamp(period.end)]

FilterPeriod_keeps_all(df_subject, b) == df_subject

\* df_subject[(column >= start_date) & (column <= end_date)]
FilterPeriod(df_subject, b) ==
    IF b.start_date.nat \/ b.end_date.nat THEN {}
    ELSE {r \in df_subject : b.start_date.day <= r.day /\ r.day <= b.end_date.day}

ToolReturns(v) == [raised |-> "", value |-> v]
ToolRaises(e) == [raised |-> e, value |-> ""]

\* analyze_mobility_patterns: no subject check and no exception handler
analyze_mobility_patterns(rows, subject_id, period) ==
    LET df_subject == FilterSubject(rows, subject_id)
    IN IF ~WellFormedPeriod(period) THEN ToolRaises("ValueError")
       ELSE LET df_period == FilterPeriod(df_subject, PeriodBounds(df_subject, period))
            IN IF df_period = {} THEN ToolReturns(NoDataSentinel)
               ELSE ToolReturns(Res("mobility analysis"))

\* analyze_sleep_statistics: the whole body is inside try / except Exception
analyze_sleep_statistics(rows, subject_id, period) ==
    LET df_subject == FilterSubject(rows, subject_id)
    IN IF df_subject = {} THEN ToolReturns(Err("no data for subject"))
       ELSE IF ~WellFormedPeriod(period) THEN ToolReturns(Err("statistics failed"))
       ELSE LET df_period == FilterPeriod(df_subject, PeriodBounds(df_subject, period))
            IN IF df_period = {} THEN ToolReturns(NoDataSentinel)
               ELSE ToolReturns(Res("sleep statistics"))

DomainTools == {"analyze_sleep_statistics", "analyze_mobility_patterns"}

ToolCall(fn, rows, subject_id, period) ==
    [pc |-> "loop", fn |-> fn, rows |-> rows, subject_id |-> subject_id,
     period |-> period, result |-> "", raised |-> ""]

\* one invocation of a domain tool on the data file
domain_tool_call ==
    /\ rg.fn \in DomainTools
    /\ rg.pc = "loop"
    /\ LET out == IF rg.fn = "analyze_sleep_statistics"
                  THEN analyze_sleep_statistics(rg.rows, rg.subject_id, rg.period)
                  ELSE analyze_mobility_patterns(rg.rows, rg.subject_id, rg.period)
       IN rg' = [rg EXCEPT !.pc = IF out.raised = "" THEN "returned" ELSE "raised",
                           !.result = out.value,
                           !.raised = out.raised]
    /\ UNCHANGED pipeline_vars

InitTool ==
    /\ PipelineIdle
    /\ fault = "none"
    /\ last_run = NoRun
    /\ llm_called = FALSE
    /\ \E fn \in DomainTools, rows \in SUBSET DataRows,
          subject_id \in DataSubjects, period \in Periods :
         rg = ToolCall(fn, rows, subject_id, period)

NextTool == domain_tool_call

SpecTool == InitTool /\ [][NextTool]_vars

\* the rows of the subject that fall in the period, read off the data file
RowsInPeriod ==
    {r \in rg.rows :
        /\ r.subject_id = rg.subject_id
        /\ rg.period.kind = "range" =>
               (rg.period.start <= r.day /\ r.day <= rg.period.end)}

\* C40: for any subject id and any period of the form last_N_days or
\* start,end, a domain tool whose data is empty after filtering by subject
\* and period returns an error sentinel and does not raise.
C40_EmptyResultIsErrorSentinel ==
    (/\ rg.fn \in DomainTools
     /\ rg.pc # "loop"
     /\ WellFormedPeriod(rg.period)
     /\ RowsInPeriod = {})
        => (rg.pc = "returned" /\ rg.raised = "" /\ HasErrorKey(rg.result))

C40_Witness ==
    /\ rg.fn = "analyze_mobility_patterns"
    /\ rg.pc = "returned"
    /\ rg.period.kind = "last"
    /\ rg.rows # {}
    /\ FilterSubject(rg.rows, rg.subject_id) = {}
    /\ rg.result = NoDataSentinel

====
